---- MODULE Spec2Model ----
(***************************************************************************)
(* The audio/media playback coordinator of ReWord4 (src/App.tsx, the       *)
(* audio utilities from line 212 on) and the Stop Signal subscribers of    *)
(* src/components/word-detail/MediaSection.tsx.                            *)
(*                                                                         *)
(* The program is single-threaded JavaScript.  One action of the model is  *)
(* one task of the event loop together with the microtasks it triggers: a  *)
(* call of an entry point up to its first suspension, or a platform event  *)
(* (an element's ended/error event, the settling of a play() promise, a    *)
(* voiceschanged event, a timer) with the promise continuations that the   *)
(* event resumes.  The sequential code of a handler is written as an       *)
(* operator from the program state (a record, W below) to the state after. *)
(*                                                                         *)
(* Rates are counted in hundredths (1.0 is 100).  A locale tag is a pair   *)
(* <<language, region>>, so en-GB is <<"en", "GB">>.                       *)
(***************************************************************************)
EXTENDS Integers, Sequences, FiniteSets, TLC

\* Bounds of the model: audio elements created, entry-point calls made.
MaxAudio == 2
MaxCalls == 2
\* The media items (videos, scenes, songs) a section is given at most.
MaxMedia == 2

\* Math.max(0.1, Math.min(10, rate)), in hundredths.
MinRate == 10
MaxRate == 1000

VARIABLES
    cachedVoices,    \* let cachedVoices: the cached voice catalog
    isLoaded,        \* let isLoaded
    currentAudio,    \* let currentAudio: 0 is null, else an index of audio
    audio,           \* the HTMLAudioElements created by playUrl, in order
    synthQueue,      \* window.speechSynthesis: utterances speaking or pending
    platformVoices,  \* what synth.getVoices() returns
    onvoiceschanged, \* synth.onvoiceschanged is set to updateVoices
    speakThrows,     \* setting up or speaking an utterance throws
    listeners,       \* 'voiceschanged' listeners of waitForVoices, in order
    calls,           \* the entry-point calls made, in order
    lecture,         \* VideoLectureSection: its state while mounted
    scene,           \* VideoSceneSection: playingId is 0 for null, else idx + 1
    music,           \* MusicSection: its state and its <audio> element
    last             \* the step taken last, and the handle before it

vars == <<cachedVoices, isLoaded, currentAudio, audio, synthQueue,
          platformVoices, onvoiceschanged, speakThrows, listeners, calls,
          lecture, scene, music, last>>

----------------------------------------------------------------------------
\* The program state as one record, and its assignment back.

W == [cachedVoices |-> cachedVoices, isLoaded |-> isLoaded,
      currentAudio |-> currentAudio, audio |-> audio,
      synthQueue |-> synthQueue, platformVoices |-> platformVoices,
      onvoiceschanged |-> onvoiceschanged, speakThrows |-> speakThrows,
      listeners |-> listeners,
      calls |-> calls, lecture |-> lecture, scene |-> scene, music |-> music]

\* The state after the step is the value of s.  (A bound variable holds a
\* value: every operator below binds its argument once, w \in {s}, so that
\* the state a handler starts from is computed once however often it is read.)
The(S) == CHOOSE x \in S : TRUE

Becomes(s) == \E w \in {s} :
    /\ cachedVoices' = w.cachedVoices
    /\ isLoaded' = w.isLoaded
    /\ currentAudio' = w.currentAudio
    /\ audio' = w.audio
    /\ synthQueue' = w.synthQueue
    /\ platformVoices' = w.platformVoices
    /\ onvoiceschanged' = w.onvoiceschanged
    /\ speakThrows' = w.speakThrows
    /\ listeners' = w.listeners
    /\ calls' = w.calls
    /\ lecture' = w.lecture
    /\ scene' = w.scene
    /\ music' = w.music

\* What last records of a step: the operation, the element it concerns, and
\* the handle and the length of the speech queue it started from, and whether
\* a section was playing then.
Step(op, c, el) ==
    [op |-> op, el |-> el, handle |-> currentAudio, queued |-> Len(synthQueue),
     playing |-> lecture.isPlaying \/ scene.playingId # 0
                    \/ music.isPlaying \/ ~music.paused]
Other == [op |-> "other", el |-> 0, handle |-> 0, queued |-> 0, playing |-> FALSE]

----------------------------------------------------------------------------
\* Inputs.

NoUrl == <<"none", "", 0>>

\* `https://dict.youdao.com/dictvoice?audio=${text}&type=${type}`
dictUrl(text, accent) == <<"dictvoice", text, IF accent = "UK" THEN 1 ELSE 2>>

Voice(name, lang) == [name |-> name, lang |-> lang]
Catalogs ==
    { <<>>, <<Voice("fr", <<"fr", "FR">>), Voice("us", <<"en", "US">>)>> }

----------------------------------------------------------------------------
\* window.dispatchEvent(new CustomEvent('reword:stop-media')): the handleStop
\* of every mounted section runs.

\* A handleStop that flips isPlaying instead of clearing it.
dispatchStopMedia_Toggle(s) ==
    The({ [w EXCEPT
            !.lecture.isPlaying = IF w.lecture.listening > 0 THEN ~@ ELSE @,
            !.scene.playingId = IF w.scene.listening > 0 THEN 0 ELSE @,
            !.music.paused = IF w.music.listening > 0 /\ w.music.n > 0 THEN TRUE ELSE @,
            !.music.isPlaying = IF w.music.listening > 0 THEN FALSE ELSE @]
          : w \in {s} })

\* The handleStop of MusicSection without audioRef.current.pause().
dispatchStopMedia_NoPause(s) ==
    The({ [w EXCEPT
            !.lecture.isPlaying = IF w.lecture.listening > 0 THEN FALSE ELSE @,
            !.scene.playingId = IF w.scene.listening > 0 THEN 0 ELSE @,
            !.music.isPlaying = IF w.music.listening > 0 THEN FALSE ELSE @]
          : w \in {s} })

\* The listeners registered on window run: setIsPlaying(false);
\* setPlayingId(null); if (audioRef.current) audioRef.current.pause() and
\* setIsPlaying(false).
dispatchStopMedia(s) ==
    The({ [w EXCEPT
            !.lecture.isPlaying = IF w.lecture.listening > 0 THEN FALSE ELSE @,
            !.scene.playingId = IF w.scene.listening > 0 THEN 0 ELSE @,
            !.music.paused = IF w.music.listening > 0 /\ w.music.n > 0 THEN TRUE ELSE @,
            !.music.isPlaying = IF w.music.listening > 0 THEN FALSE ELSE @]
          : w \in {s} })

\* stopAudio without synth.cancel().
stopAudio_NoCancel(s) ==
    The({ dispatchStopMedia(
            IF w.currentAudio # 0
            THEN [w EXCEPT !.audio[w.currentAudio].paused = TRUE,
                           !.audio[w.currentAudio].currentTime = 0,
                           !.currentAudio = 0]
            ELSE w)
          : w \in {s} })

\* synth.cancel(); pause, reset and release the tracked element; dispatch.
stopAudio(s) ==
    The({ dispatchStopMedia(
            IF w.currentAudio # 0
            THEN [w EXCEPT !.synthQueue = <<>>,
                           !.audio[w.currentAudio].paused = TRUE,
                           !.audio[w.currentAudio].currentTime = 0,
                           !.currentAudio = 0]
            ELSE [w EXCEPT !.synthQueue = <<>>])
          : w \in {s} })

----------------------------------------------------------------------------
\* playUrl.

NewAudio(url, playbackRate, c) ==
    [url |-> url, playbackRate |-> playbackRate,
     paused |-> FALSE,        \* audio.play() was called
     currentTime |-> 0,
     play |-> "pending",      \* the promise audio.play() returned
     ended |-> FALSE, error |-> FALSE,
     promise |-> "pending",   \* the promise playUrl returned
     call |-> c]              \* the call whose playUrl created it

\* The element is playing, or about to once enough is loaded.
Playing(a) == ~a.paused /\ ~a.ended /\ ~a.error /\ a.play # "rejected"

\* playUrl without its stopAudio().
playUrl_NoStop(s, c, url, playbackRate) ==
    The({ [w EXCEPT !.audio = Append(@, NewAudio(url, playbackRate, c)),
                    !.currentAudio = Len(w.audio) + 1,
                    !.calls[c].el = Len(w.audio) + 1,
                    !.calls[c].pc = "await"]
          : w \in {s} })

playUrl(s, c, url, playbackRate) ==
    The({ [w EXCEPT !.audio = Append(@, NewAudio(url, playbackRate, c)),
                    !.currentAudio = Len(w.audio) + 1,
                    !.calls[c].el = Len(w.audio) + 1,
                    !.calls[c].pc = "await"]
          : w \in {stopAudio(s)} })

\* currentAudio = null without the identity check.
clearIfCurrent_Always(s, e) ==
    The({ [w EXCEPT !.currentAudio = 0] : w \in {s} })

\* Handlers that leave currentAudio as it is.
clearIfCurrent_Never(s, e) == The({ w : w \in {s} })

\* if (currentAudio === audio) currentAudio = null;
clearIfCurrent(s, e) ==
    The({ IF w.currentAudio = e THEN [w EXCEPT !.currentAudio = 0] ELSE w
          : w \in {s} })

----------------------------------------------------------------------------
\* playTextToSpeech and waitForVoices.

NoVoice == Voice("", <<"", "">>)

Min(S) == CHOOSE x \in S : \A y \in S : x <= y

\* Math.min(10, rate) alone.
clampRate_NoMin(rate) == IF rate < MaxRate THEN rate ELSE MaxRate

clampRate(rate) ==
    LET lo == IF rate < MaxRate THEN rate ELSE MaxRate
    IN  IF lo > MinRate THEN lo ELSE MinRate

langTag(accent) == IF accent = "UK" THEN <<"en", "GB">> ELSE <<"en", "US">>

\* voices.find(v => v.lang === langTag) alone.
targetVoice_ExactOnly(voices, accent) ==
    LET exact == {i \in 1..Len(voices) : voices[i].lang = langTag(accent)}
    IN  IF exact # {} THEN voices[Min(exact)] ELSE NoVoice

\* voices.find(v => v.lang === langTag) || voices.find(v => v.lang.startsWith('en'))
targetVoice(voices, accent) ==
    LET exact == {i \in 1..Len(voices) : voices[i].lang = langTag(accent)}
        en == {i \in 1..Len(voices) : voices[i].lang[1] = "en"}
    IN  IF exact # {} THEN voices[Min(exact)]
        ELSE IF en # {} THEN voices[Min(en)]
        ELSE NoVoice

\* The utterance of call c for the catalog its waitForVoices resolved with.
utterance(k, c) ==
    LET tv == targetVoice(k.voices, k.accent)
    IN  [text |-> k.text, rate |-> clampRate(k.rate),
         voice |-> tv.name,
         lang |-> IF tv # NoVoice THEN tv.lang ELSE langTag(k.accent),
         call |-> c]

\* The try block without its catch: what is thrown rejects the call.
speakLoop_NoTry(s, c) ==
    The({ LET k == w.calls[c] IN
          IF w.speakThrows
          THEN [w EXCEPT !.calls[c].tts = "done",
                         !.calls[c].voices = <<>>,
                         !.calls[c].pc = IF k.kind = "speak" THEN "rejected" ELSE @]
          ELSE [w EXCEPT !.synthQueue = @ \o [i \in 1..k.repeat |-> utterance(k, c)],
                         !.calls[c].tts = "done",
                         !.calls[c].voices = <<>>,
                         !.calls[c].queued = @ + k.repeat,
                         !.calls[c].pc = IF k.kind = "speak" THEN "resolved" ELSE @]
          : w \in {s} })

\* The body of the loop run once, whatever repeat is.
speakLoop_Once(s, c) ==
    The({ LET k == w.calls[c] IN
          IF w.speakThrows
          THEN [w EXCEPT !.calls[c].tts = "done",
                         !.calls[c].voices = <<>>,
                         !.calls[c].pc = IF k.kind = "speak" THEN "resolved" ELSE @]
          ELSE [w EXCEPT !.synthQueue = Append(@, utterance(k, c)),
                         !.calls[c].tts = "done",
                         !.calls[c].voices = <<>>,
                         !.calls[c].queued = @ + 1,
                         !.calls[c].pc = IF k.kind = "speak" THEN "resolved" ELSE @]
          : w \in {s} })

\* The for loop of playTextToSpeech, run when waitForVoices has resolved.  If
\* the first pass throws, the catch logs it and the call is over.
speakLoop(s, c) ==
    The({ LET k == w.calls[c] IN
          IF w.speakThrows
          THEN [w EXCEPT !.calls[c].tts = "done",
                         !.calls[c].voices = <<>>,
                         !.calls[c].pc = IF k.kind = "speak" THEN "resolved" ELSE @]
          ELSE [w EXCEPT !.synthQueue = @ \o [i \in 1..k.repeat |-> utterance(k, c)],
                         !.calls[c].tts = "done",
                         !.calls[c].voices = <<>>,
                         !.calls[c].queued = @ + k.repeat,
                         !.calls[c].pc = IF k.kind = "speak" THEN "resolved" ELSE @]
          : w \in {s} })

\* waitForVoices up to the promise it returns: resolved at once ("ready",
\* the awaiting loop runs as a microtask) or pending on the listener and the
\* 2000 ms timer ("listening").
waitForVoices(s, c) ==
    The({ IF w.isLoaded /\ Len(w.cachedVoices) > 0
          THEN [w EXCEPT !.calls[c].tts = "ready",
                         !.calls[c].voices = w.cachedVoices]
          ELSE IF Len(w.platformVoices) > 0
          THEN [w EXCEPT !.cachedVoices = w.platformVoices, !.isLoaded = TRUE,
                         !.calls[c].tts = "ready",
                         !.calls[c].voices = w.platformVoices]
          ELSE [w EXCEPT !.listeners = Append(@, c),
                         !.calls[c].tts = "listening"]
          : w \in {s} })

\* The await of waitForVoices in a promise continuation: no other code runs
\* between an already resolved waitForVoices and the loop.
awaitInline(s, c) ==
    The({ IF w.calls[c].tts = "ready" THEN speakLoop(w, c) ELSE w : w \in {s} })

\* playTextToSpeech without its first line, if (!text || repeat <= 0) return.
playTextToSpeech_NoGuard(s, c, inline) ==
    The({ IF inline
          THEN awaitInline(waitForVoices(stopAudio(w), c), c)
          ELSE waitForVoices(stopAudio(w), c)
          : w \in {s} })

\* playTextToSpeech(text, accent, rate, repeat) of call c up to its await;
\* inline: the call is made from a promise continuation.
playTextToSpeech(s, c, inline) ==
    The({ IF w.calls[c].text = "" \/ w.calls[c].repeat <= 0
          THEN [w EXCEPT !.calls[c].pc =
                    IF w.calls[c].kind = "speak" THEN "resolved" ELSE @]
          ELSE IF inline
          THEN awaitInline(waitForVoices(stopAudio(w), c), c)
          ELSE waitForVoices(stopAudio(w), c)
          : w \in {s} })

----------------------------------------------------------------------------
\* The continuations of `await playUrl(...)` in the callers of playUrl.

\* The fallback of playWordAudio in a finally instead of a catch.
afterPlayUrl_AlwaysTts(s, c, outcome) ==
    The({ LET k == w.calls[c] IN
          CASE k.kind = "playUrl" -> [w EXCEPT !.calls[c].pc = outcome]
            [] k.kind = "word" \/ (k.kind = "sentence" /\ k.stage = "generic") ->
                  playTextToSpeech(
                      [w EXCEPT !.calls[c].pc = "resolved",
                                !.calls[c].stage = "tts"],
                      c, TRUE)
            [] k.kind = "sentence" /\ k.stage = "explicit" ->
                  IF outcome = "resolved"
                  THEN [w EXCEPT !.calls[c].pc = "resolved"]
                  ELSE playUrl([w EXCEPT !.calls[c].stage = "generic"], c,
                               dictUrl(k.text, k.accent), k.rate)
            [] OTHER -> w
          : w \in {s} })

\* playSentenceAudio whose catch of the explicit URL goes on to the fallback
\* of the generic URL.
afterPlayUrl_SkipGeneric(s, c, outcome) ==
    The({ LET k == w.calls[c] IN
          CASE k.kind = "playUrl" -> [w EXCEPT !.calls[c].pc = outcome]
            [] k.kind \in {"word", "sentence"} ->
                  IF outcome = "resolved"
                  THEN [w EXCEPT !.calls[c].pc = "resolved"]
                  ELSE playTextToSpeech(
                          [w EXCEPT !.calls[c].pc = "resolved",
                                    !.calls[c].stage = "tts"],
                          c, TRUE)
            [] OTHER -> w
          : w \in {s} })

\* playSentenceAudio without the return after the explicit URL has played.
afterPlayUrl_NoReturn(s, c, outcome) ==
    The({ LET k == w.calls[c] IN
          CASE k.kind = "playUrl" -> [w EXCEPT !.calls[c].pc = outcome]
            [] k.kind = "word" \/ (k.kind = "sentence" /\ k.stage = "generic") ->
                  IF outcome = "resolved"
                  THEN [w EXCEPT !.calls[c].pc = "resolved"]
                  ELSE playTextToSpeech(
                          [w EXCEPT !.calls[c].pc = "resolved",
                                    !.calls[c].stage = "tts"],
                          c, TRUE)
            [] k.kind = "sentence" /\ k.stage = "explicit" ->
                  playUrl([w EXCEPT !.calls[c].stage = "generic"], c,
                          dictUrl(k.text, k.accent), k.rate)
            [] OTHER -> w
          : w \in {s} })

afterPlayUrl(s, c, outcome) ==
    The({ LET k == w.calls[c] IN
          CASE k.kind = "playUrl" -> [w EXCEPT !.calls[c].pc = outcome]
            [] k.kind = "word" \/ (k.kind = "sentence" /\ k.stage = "generic") ->
                  IF outcome = "resolved"
                  THEN [w EXCEPT !.calls[c].pc = "resolved"]
                  ELSE playTextToSpeech(
                          [w EXCEPT !.calls[c].pc = "resolved",
                                    !.calls[c].stage = "tts"],
                          c, TRUE)
            [] k.kind = "sentence" /\ k.stage = "explicit" ->
                  IF outcome = "resolved"
                  THEN [w EXCEPT !.calls[c].pc = "resolved"]
                  ELSE playUrl([w EXCEPT !.calls[c].stage = "generic"], c,
                               dictUrl(k.text, k.accent), k.rate)
            [] OTHER -> w
          : w \in {s} })

\* resolve() / reject(e) of the promise of element e: the first one settles
\* it and resumes the awaiting caller, a later one does nothing.
settle(s, e, outcome) ==
    The({ IF w.audio[e].promise # "pending" THEN w
          ELSE afterPlayUrl([w EXCEPT !.audio[e].promise = outcome],
                            w.audio[e].call, outcome)
          : w \in {s} })

\* onended without resolve().
onended_NoResolve(s, e) == clearIfCurrent(s, e)

onended(s, e) == settle(clearIfCurrent(s, e), e, "resolved")
onerror(s, e) == settle(clearIfCurrent(s, e), e, "rejected")
onplayrejected(s, e) == settle(clearIfCurrent(s, e), e, "rejected")

----------------------------------------------------------------------------
\* The entry points, as called by the user interface.

NewCall(kind, text, accent, rate, repeat, stage) ==
    [kind |-> kind, text |-> text, accent |-> accent, rate |-> rate,
     repeat |-> repeat,
     stage |-> stage,     \* the strategy in progress: explicit, generic, tts
     pc |-> "start",      \* the promise the call returned: await, resolved, rejected
     el |-> 0,            \* the element whose playUrl promise is awaited
     tts |-> "none",      \* its playTextToSpeech: ready, listening, done
     voices |-> <<>>,     \* what its waitForVoices resolved with
     queued |-> 0]        \* the synth.speak calls made for it

\* Elements that calls in progress may still create.
Reserved ==
    Cardinality({c \in 1..Len(calls) :
        calls[c].kind = "sentence" /\ calls[c].stage = "explicit"
            /\ calls[c].pc = "await"})

Room(n) == Len(calls) < MaxCalls /\ Len(audio) + Reserved + n <= MaxAudio

\* A waitForVoices promise is resolved and its continuation has not run yet:
\* the microtask runs before any further platform event is handled.
MicrotaskPending == \E c \in 1..Len(calls) : calls[c].tts = "ready"

StopAll ==
    /\ Becomes(stopAudio(W))
    /\ last' = Step("stopAll", 0, 0)

PlayUrl(url, playbackRate) ==
    /\ Room(1)
    /\ LET c == Len(calls) + 1
           w0 == [W EXCEPT !.calls =
                    Append(@, NewCall("playUrl", "", "US", playbackRate, 0, "url"))]
       IN  /\ Becomes(playUrl(w0, c, url, playbackRate))
           /\ last' = Step("playUrl", c, Len(audio) + 1)

Speak(in) ==
    /\ Room(0)
    /\ LET c == Len(calls) + 1
           w0 == [W EXCEPT !.calls =
                    Append(@, NewCall("speak", in[1], in[2], in[3], in[4], "tts"))]
       IN  /\ Becomes(playTextToSpeech(w0, c, FALSE))
           /\ last' = Step("speak", c, 0)

PlayWordAudio(in) ==
    /\ Room(1)
    /\ LET c == Len(calls) + 1
           w0 == [W EXCEPT !.calls =
                    Append(@, NewCall("word", in[1], in[2], in[3], 1, "generic"))]
       IN  /\ Becomes(IF in[1] = ""
                      THEN [w0 EXCEPT !.calls[c].pc = "resolved"]
                      ELSE playUrl(w0, c, dictUrl(in[1], in[2]), in[3]))
           /\ last' = Step("playWordAudio", c, IF in[1] = "" THEN 0 ELSE Len(audio) + 1)

PlaySentenceAudio(in, explicitUrl) ==
    /\ Room(IF explicitUrl # NoUrl THEN 2 ELSE 1)
    /\ LET c == Len(calls) + 1
           w0 == [W EXCEPT !.calls =
                    Append(@, NewCall("sentence", in[1], in[2], in[3], 1,
                        IF explicitUrl # NoUrl THEN "explicit" ELSE "generic"))]
       IN  /\ Becomes(IF explicitUrl # NoUrl
                      THEN playUrl(w0, c, explicitUrl, in[3])
                      ELSE playUrl(w0, c, dictUrl(in[1], in[2]), in[3]))
           /\ last' = Step("playSentenceAudio", c, Len(audio) + 1)

\* updateVoices without its test of voices.length.
updateVoices_Unconditional(s) ==
    The({ [w EXCEPT !.cachedVoices = w.platformVoices, !.isLoaded = TRUE]
          : w \in {s} })

\* preloadVoices: updateVoices(), then synth.onvoiceschanged = updateVoices.
updateVoices(s) ==
    The({ IF Len(w.platformVoices) > 0
          THEN [w EXCEPT !.cachedVoices = w.platformVoices, !.isLoaded = TRUE]
          ELSE w
          : w \in {s} })

preload(s) ==
    The({ [w EXCEPT !.onvoiceschanged = TRUE] : w \in {updateVoices(s)} })

preloadVoices ==
    /\ Becomes(preload(W))
    /\ last' = Step("preload", 0, 0)

----------------------------------------------------------------------------
\* Platform events.

\* The continuation of `await waitForVoices()` of call c (a microtask).
TtsResume(c) ==
    /\ calls[c].tts = "ready"
    /\ Becomes(speakLoop(W, c))
    /\ last' = Step("ttsResume", c, 0)

\* An event of element e can still change the program's state: its promise
\* is pending or it is the tracked element.  (The handlers of any other
\* element find the promise settled and the handle elsewhere: they do nothing.)
Live(e) == audio[e].promise = "pending" \/ currentAudio = e

\* Enough of element e is loaded and playback is allowed: play() resolves and
\* the position advances.
AudioPlayStarts(e) ==
    /\ ~MicrotaskPending
    /\ audio[e].play = "pending" /\ Playing(audio[e])
    /\ Becomes([W EXCEPT !.audio[e].play = "resolved", !.audio[e].currentTime = 1])
    /\ last' = Other

\* play() of element e rejects: autoplay is blocked, or pause() was called
\* while the promise was pending.
AudioPlayRejected(e) ==
    /\ ~MicrotaskPending
    /\ Live(e)
    /\ audio[e].play = "pending"
    /\ Becomes(onplayrejected([W EXCEPT !.audio[e].play = "rejected"], e))
    /\ last' = Step("rejected", audio[e].call, e)

AudioEnded(e) ==
    /\ ~MicrotaskPending
    /\ audio[e].play = "resolved" /\ Playing(audio[e])
    /\ Becomes(onended([W EXCEPT !.audio[e].ended = TRUE], e))
    /\ last' = Step("ended", audio[e].call, e)

\* Loading of element e fails (network, decoding): the error event fires, and
\* a play() promise still pending rejects; both handlers clear and reject.
AudioError(e) ==
    /\ ~MicrotaskPending
    /\ Live(e)
    /\ ~audio[e].error /\ ~audio[e].ended
    /\ Becomes(onerror([W EXCEPT !.audio[e].error = TRUE,
                                 !.audio[e].play = IF @ = "pending" THEN "rejected" ELSE @], e))
    /\ last' = Step("error", audio[e].call, e)

\* The head utterance has been spoken.
SynthEnd ==
    /\ ~MicrotaskPending
    /\ synthQueue # <<>>
    /\ Becomes([W EXCEPT !.synthQueue = Tail(@)])
    /\ last' = Other

\* A handler that resolves with whatever the platform reports, voices or none.
handler_ResolveEmpty(s, c) ==
    The({ speakLoop([w EXCEPT !.listeners = SelectSeq(@, LAMBDA x : x # c),
                              !.calls[c].tts = "ready",
                              !.calls[c].voices = w.platformVoices], c)
          : w \in {s} })

\* The 'voiceschanged' handler of the waitForVoices of call c.
handler(s, c) ==
    The({ IF Len(w.platformVoices) > 0
          THEN speakLoop([w EXCEPT !.cachedVoices = w.platformVoices,
                                   !.isLoaded = TRUE,
                                   !.listeners = SelectSeq(@, LAMBDA x : x # c),
                                   !.calls[c].tts = "ready",
                                   !.calls[c].voices = w.platformVoices], c)
          ELSE w
          : w \in {s} })

RECURSIVE notifyListeners(_, _)
\* The handlers of the listeners ls, which were registered when the event
\* fired, in the order of their registration.
notifyListeners(s, ls) ==
    IF ls = <<>> THEN s ELSE notifyListeners(handler(s, Head(ls)), Tail(ls))

\* The 'voiceschanged' event: synth.onvoiceschanged, then the listeners.
voiceschanged(s) ==
    The({ notifyListeners(IF w.onvoiceschanged THEN updateVoices(w) ELSE w,
                          w.listeners)
          : w \in {s} })

\* The platform's voice list becomes cat; a 'voiceschanged' event fires, or
\* (notify = FALSE) the platform does not report the change.
VoicesChanged(cat, notify) ==
    /\ ~MicrotaskPending
    /\ notify \/ cat # platformVoices
    /\ Becomes(IF notify
               THEN voiceschanged([W EXCEPT !.platformVoices = cat])
               ELSE [W EXCEPT !.platformVoices = cat])
    /\ last' = Other

\* The timer callback without its removeEventListener.
VoicesTimeout_KeepListener(c) ==
    /\ ~MicrotaskPending
    /\ calls[c].tts = "listening"
    /\ Becomes(speakLoop([W EXCEPT !.calls[c].tts = "ready",
                                    !.calls[c].voices = platformVoices], c))
    /\ last' = Step("timeout", c, 0)

\* The 2000 ms timer of the waitForVoices of call c fires: the listener is
\* removed and the promise resolves with synth.getVoices().
VoicesTimeout(c) ==
    /\ ~MicrotaskPending
    /\ calls[c].tts = "listening"
    /\ Becomes(speakLoop([W EXCEPT !.listeners = SelectSeq(@, LAMBDA x : x # c),
                                    !.calls[c].tts = "ready",
                                    !.calls[c].voices = platformVoices], c))
    /\ last' = Step("timeout", c, 0)

\* The platform starts or stops throwing when an utterance is set up or
\* spoken (a rate that is not a finite number, a synthesizer out of order).
SynthFault ==
    /\ ~MicrotaskPending
    /\ Becomes([W EXCEPT !.speakThrows = ~@])
    /\ last' = Other

----------------------------------------------------------------------------

\* The sections of MediaSection.tsx.  A section is mounted with its list of
\* n media items; its hooks run also when n = 0 and it renders nothing.
\* listening counts the 'reword:stop-media' listeners it has on window: its
\* effect adds one on mount and the effect's cleanup removes it on unmount.

\* useState(0), useState(false) of VideoLectureSection.
NewLecture(n) == [mounted |-> TRUE, n |-> n, activeIdx |-> 0, isPlaying |-> FALSE,
                  listening |-> 0]
NoLecture == [mounted |-> FALSE, n |-> 0, activeIdx |-> 0, isPlaying |-> FALSE,
              listening |-> 0]

\* useState(null) of VideoSceneSection.
NewScene(n) == [mounted |-> TRUE, n |-> n, playingId |-> 0, listening |-> 0]
NoScene == [mounted |-> FALSE, n |-> 0, playingId |-> 0, listening |-> 0]

\* useState(0), useState(false), useRef of MusicSection; paused is the state
\* of its <audio> element, which is rendered when n > 0.
NewMusic(n) == [mounted |-> TRUE, n |-> n, activeIdx |-> 0, isPlaying |-> FALSE,
                paused |-> TRUE, listening |-> 0]
NoMusic == [mounted |-> FALSE, n |-> 0, activeIdx |-> 0, isPlaying |-> FALSE,
            paused |-> TRUE, listening |-> 0]

\* The effect on [activeIdx] of VideoLectureSection: stopGlobalAudio();
\* setIsPlaying(false).  It runs on mount and when activeIdx changes.
lectureEffect(s) ==
    The({ [w EXCEPT !.lecture.isPlaying = FALSE] : w \in {stopAudio(s)} })

\* The effects run in their order: the one on [activeIdx], then the one
\* that adds the listener.
LectureMount(n) ==
    /\ ~lecture.mounted
    /\ Becomes([lectureEffect([W EXCEPT !.lecture = NewLecture(n)])
                   EXCEPT !.lecture.listening = lecture.listening + 1])
    /\ last' = Step("mount", 0, 0)

LectureUnmount ==
    /\ lecture.mounted
    /\ Becomes([W EXCEPT !.lecture =
                   [NoLecture EXCEPT !.listening = lecture.listening - 1]])
    /\ last' = Step("unmount", 0, 0)

\* handlePlayClick without its stopGlobalAudio().
handlePlayClick_NoStop(s) ==
    The({ IF ~w.lecture.isPlaying
          THEN [w EXCEPT !.lecture.isPlaying = TRUE]
          ELSE [w EXCEPT !.lecture.isPlaying = FALSE]
          : w \in {s} })

\* handlePlayClick of VideoLectureSection; its button is rendered while the
\* section is not playing.
handlePlayClick(s) ==
    The({ IF ~w.lecture.isPlaying
          THEN The({ [v EXCEPT !.lecture.isPlaying = TRUE] : v \in {stopAudio(w)} })
          ELSE [w EXCEPT !.lecture.isPlaying = FALSE]
          : w \in {s} })

LecturePlayClick ==
    /\ lecture.mounted /\ lecture.n > 0 /\ ~lecture.isPlaying
    /\ Becomes(handlePlayClick(W))
    /\ last' = Step("lecturePlay", 0, 0)

\* onEnded of the <video>, which is rendered while the section is playing.
LectureEnded ==
    /\ lecture.mounted /\ lecture.n > 0 /\ lecture.isPlaying
    /\ Becomes([W EXCEPT !.lecture.isPlaying = FALSE])
    /\ last' = Other

\* The previous / next buttons: setActiveIdx, then the effect on [activeIdx].
LectureNav(i) ==
    /\ lecture.mounted /\ lecture.n > 1
    /\ i \in 0..(lecture.n - 1) /\ i # lecture.activeIdx
    /\ i \in {lecture.activeIdx - 1, lecture.activeIdx + 1}
    /\ Becomes(lectureEffect([W EXCEPT !.lecture.activeIdx = i]))
    /\ last' = Step("lectureNav", 0, 0)

SceneMount(n) ==
    /\ ~scene.mounted
    /\ Becomes([W EXCEPT !.scene =
                   [NewScene(n) EXCEPT !.listening = scene.listening + 1]])
    /\ last' = Other

SceneUnmount ==
    /\ scene.mounted
    /\ Becomes([W EXCEPT !.scene =
                   [NoScene EXCEPT !.listening = scene.listening - 1]])
    /\ last' = Step("unmount", 0, 0)

\* handlePlay(idx) of VideoSceneSection; the button of a scene is rendered
\* while that scene is not the one playing.
handlePlay(s, idx) ==
    The({ IF w.scene.playingId = idx + 1
          THEN [w EXCEPT !.scene.playingId = 0]
          ELSE The({ [v EXCEPT !.scene.playingId = idx + 1] : v \in {stopAudio(w)} })
          : w \in {s} })

ScenePlay(idx) ==
    /\ scene.mounted /\ idx \in 0..(scene.n - 1) /\ scene.playingId # idx + 1
    /\ Becomes(handlePlay(W, idx))
    /\ last' = Step("scenePlay", 0, 0)

SceneEnded ==
    /\ scene.mounted /\ scene.playingId # 0
    /\ Becomes([W EXCEPT !.scene.playingId = 0])
    /\ last' = Other

MusicMount(n) ==
    /\ ~music.mounted
    /\ Becomes([W EXCEPT !.music =
                   [NewMusic(n) EXCEPT !.listening = music.listening + 1]])
    /\ last' = Other

\* An unmount of MusicSection whose effect returns no cleanup.
MusicUnmount_NoCleanup ==
    /\ music.mounted
    /\ Becomes([W EXCEPT !.music =
                   [NoMusic EXCEPT !.listening = music.listening]])
    /\ last' = Step("unmount", 0, 0)

MusicUnmount ==
    /\ music.mounted
    /\ Becomes([W EXCEPT !.music =
                   [NoMusic EXCEPT !.listening = music.listening - 1]])
    /\ last' = Step("unmount", 0, 0)

\* togglePlay of MusicSection.
togglePlay(s) ==
    The({ IF w.music.n = 0 THEN w
          ELSE IF w.music.isPlaying
          THEN [w EXCEPT !.music.paused = TRUE, !.music.isPlaying = FALSE]
          ELSE The({ [v EXCEPT !.music.paused = FALSE, !.music.isPlaying = TRUE]
                     : v \in {stopAudio(w)} })
          : w \in {s} })

MusicTogglePlay ==
    /\ music.mounted /\ music.n > 0
    /\ Becomes(togglePlay(W))
    /\ last' = Step("togglePlay", 0, 0)

\* onEnded of the <audio> of MusicSection.
MusicEnded ==
    /\ music.mounted /\ music.n > 0 /\ ~music.paused
    /\ Becomes([W EXCEPT !.music.paused = TRUE, !.music.isPlaying = FALSE])
    /\ last' = Other

\* play() of the <audio> rejects; the rejection goes to console.error.
MusicPlayRejected ==
    /\ music.mounted /\ music.n > 0 /\ ~music.paused
    /\ Becomes([W EXCEPT !.music.paused = TRUE])
    /\ last' = Other

\* The previous / next buttons of MusicSection: setActiveIdx; the src of the
\* <audio> changes, which loads the new track and leaves the element paused.
MusicNav(i) ==
    /\ music.mounted /\ music.n > 1
    /\ i \in 0..(music.n - 1) /\ i \in {music.activeIdx - 1, music.activeIdx + 1}
    /\ Becomes([W EXCEPT !.music.activeIdx = i, !.music.paused = TRUE])
    /\ last' = Other

----------------------------------------------------------------------------

Init ==
    /\ cachedVoices = <<>>
    /\ isLoaded = FALSE
    /\ currentAudio = 0
    /\ audio = <<>>
    /\ synthQueue = <<>>
    /\ platformVoices \in Catalogs
    /\ onvoiceschanged = FALSE
    /\ speakThrows = FALSE
    /\ listeners = <<>>
    /\ calls = <<>>
    /\ lecture = NoLecture
    /\ scene = NoScene
    /\ music = NoMusic
    /\ last = Other

\* The calls of the user interface tried: one of each entry point that plays.
TheUrl == <<"url", "a.mp3", 0>>
TheSpeak == <<"hello", "UK", 5, 2>>
TheWord == <<"hello", "UK", 5>>

Call ==
    \/ StopAll
    \/ PlayUrl(TheUrl, 100)
    \/ Speak(TheSpeak)
    \/ PlayWordAudio(TheWord)
    \/ \E x \in {NoUrl, TheUrl} : PlaySentenceAudio(TheWord, x)

Event ==
    \/ \E c \in 1..Len(calls) : TtsResume(c)
    \/ \E e \in 1..Len(audio) : AudioPlayStarts(e)
    \/ \E e \in 1..Len(audio) : AudioPlayRejected(e)
    \/ \E e \in 1..Len(audio) : AudioEnded(e)
    \/ \E e \in 1..Len(audio) : AudioError(e)
    \/ SynthEnd
    \/ \E cat \in Catalogs, notify \in BOOLEAN : VoicesChanged(cat, notify)
    \/ \E c \in 1..Len(calls) : VoicesTimeout(c)

Next == Call \/ Event

Spec == Init /\ [][Next]_vars

\* What the platform guarantees: a microtask runs; the 2000 ms timer fires;
\* an element left playing starts, ends or fails; a play() promise pending
\* when pause() is called rejects.  Nothing obliges the user interface to
\* call anything, nor a paused element to fail.
Guaranteed ==
    \/ \E c \in 1..Len(calls) : TtsResume(c) \/ VoicesTimeout(c)
    \/ \E e \in 1..Len(audio) :
          \/ /\ Playing(audio[e])
             /\ \/ AudioPlayStarts(e) \/ AudioPlayRejected(e)
                \/ AudioEnded(e) \/ AudioError(e)
          \/ audio[e].paused /\ AudioPlayRejected(e)

\* Every such step uses up an element's or a call's pending event, so weak
\* fairness of their disjunction lets none of them wait for ever.
Fairness == WF_vars(Guaranteed)

FairSpec == Spec /\ Fairness

\* The coordinator on a platform whose synthesizer may throw.
FaultNext == Next \/ SynthFault

FaultSpec == Init /\ [][FaultNext]_vars

\* speak with every kind of argument on platforms with various voice lists,
\* next to playUrl, stopAll and the music player.
SpeakInputs ==
    { <<"hello", "UK", 5, 2>>, <<"hello", "US", 2000, 1>>,
      <<"hello", "US", 100, 2>>, <<"hello", "UK", 100, 1>>,
      <<"", "UK", 100, 1>>, <<"", "US", 100, 0>>,
      <<"hello", "UK", 100, 0>>, <<"hello", "US", 5, -1>> }

VoiceCatalogs ==
    { <<>>,
      <<Voice("fr", <<"fr", "FR">>)>>,
      <<Voice("fr", <<"fr", "FR">>), Voice("us", <<"en", "US">>)>>,
      <<Voice("fr", <<"fr", "FR">>), Voice("au", <<"en", "AU">>)>>,
      <<Voice("au", <<"en", "AU">>), Voice("us", <<"en", "US">>),
        Voice("gb", <<"en", "GB">>)>> }

SpeakInit ==
    /\ cachedVoices = <<>>
    /\ isLoaded = FALSE
    /\ currentAudio = 0
    /\ audio = <<>>
    /\ synthQueue = <<>>
    /\ platformVoices \in VoiceCatalogs
    /\ onvoiceschanged = FALSE
    /\ speakThrows = FALSE
    /\ listeners = <<>>
    /\ calls = <<>>
    /\ lecture = NoLecture
    /\ scene = NoScene
    /\ music = NoMusic
    /\ last = Other

SpeakNext ==
    \/ \E in \in SpeakInputs : Speak(in)
    \/ StopAll
    \/ PlayUrl(TheUrl, 100)
    \/ \E c \in 1..Len(calls) : TtsResume(c)
    \/ \E e \in 1..Len(audio) : AudioPlayStarts(e)
    \/ SynthEnd
    \/ \E cat \in VoiceCatalogs, notify \in BOOLEAN : VoicesChanged(cat, notify)
    \/ \E c \in 1..Len(calls) : VoicesTimeout(c)
    \/ MusicMount(MaxMedia)
    \/ MusicTogglePlay

SpeakSpec == SpeakInit /\ [][SpeakNext]_vars

\* The voice cache: preloadVoices and speak on platforms whose voice list
\* comes and goes, with and without notification.
VoiceNext ==
    \/ preloadVoices
    \/ Speak(TheSpeak)
    \/ StopAll
    \/ \E c \in 1..Len(calls) : TtsResume(c)
    \/ SynthEnd
    \/ \E cat \in VoiceCatalogs, notify \in BOOLEAN : VoicesChanged(cat, notify)
    \/ \E c \in 1..Len(calls) : VoicesTimeout(c)

VoiceSpec == SpeakInit /\ [][VoiceNext]_vars

\* The sections with the coordinator: stopAll, playUrl and speak calls and
\* the events of their elements, while sections mount, play and unmount.
Widget ==
    \/ \E n \in {0, MaxMedia} : LectureMount(n)
    \/ LectureUnmount
    \/ LecturePlayClick
    \/ LectureEnded
    \/ \E i \in 0..(MaxMedia - 1) : LectureNav(i)
    \/ \E n \in {0, MaxMedia} : SceneMount(n)
    \/ SceneUnmount
    \/ \E idx \in 0..(MaxMedia - 1) : ScenePlay(idx)
    \/ SceneEnded
    \/ \E n \in {0, MaxMedia} : MusicMount(n)
    \/ MusicUnmount
    \/ MusicTogglePlay
    \/ MusicEnded
    \/ MusicPlayRejected
    \/ \E i \in 0..(MaxMedia - 1) : MusicNav(i)

MediaCall ==
    \/ StopAll
    \/ PlayUrl(TheUrl, 100)
    \/ Speak(TheSpeak)

MediaEvent ==
    \/ \E c \in 1..Len(calls) : TtsResume(c)
    \/ \E e \in 1..Len(audio) : AudioPlayStarts(e)
    \/ \E e \in 1..Len(audio) : AudioEnded(e)
    \/ SynthEnd

MediaNext == Widget \/ MediaCall \/ MediaEvent

MediaSpec == Init /\ [][MediaNext]_vars

----------------------------------------------------------------------------
\* Vocabulary of the claims.

Elements == 1..Len(audio)
Calls == 1..Len(calls)
ElementEvents == {"ended", "error", "rejected"}
PlayUrlSteps == {"playUrl", "playWordAudio", "playSentenceAudio"}

\* The remote playback of element e failed: error event or play() rejection.
Failed(e) == audio[e].error \/ audio[e].play = "rejected"

\* Call c has issued a playback request (it has run stopAudio and then
\* created an element or entered waitForVoices).
Started(c) == calls[c].el # 0 \/ calls[c].tts # "none"

----------------------------------------------------------------------------
\* C1: in every state reached by a call of stopAll(), whatever preceded it,
\* the Active Playback Handle is null, the element it pointed to is paused
\* and at position 0, and the speech-synthesis queue is empty.
C1_AfterStopAll ==
    last.op = "stopAll" =>
        /\ currentAudio = 0
        /\ synthQueue = <<>>
        /\ last.handle # 0 =>
              audio[last.handle].paused /\ audio[last.handle].currentTime = 0

\* stopAll() was called while an element that had started playing was tracked.
C1_Witness ==
    /\ last.op = "stopAll"
    /\ last.handle # 0
    /\ audio[last.handle].play = "resolved"
    /\ audio[last.handle].paused

\* C2: at most one element created by playUrl is playing at any instant, and
\* a playUrl call leaves the element tracked before it paused and reset, and
\* its own new element as the handle.
C2_OnePlaying ==
    /\ Cardinality({e \in Elements : Playing(audio[e])}) <= 1
    /\ \A e \in Elements : Playing(audio[e]) => currentAudio = e
    /\ (last.op \in PlayUrlSteps /\ last.el # 0) =>
          /\ currentAudio = last.el
          /\ \A e \in 1..(last.el - 1) : ~Playing(audio[e])
          /\ last.handle # 0 =>
                audio[last.handle].paused /\ audio[last.handle].currentTime = 0

\* playUrl was called while the element of an earlier call was playing.
C2_Witness ==
    /\ last.op = "playUrl"
    /\ last.handle # 0
    /\ audio[last.handle].play = "resolved"
    /\ Playing(audio[last.el])

\* C3: when an element of a playUrl call fires ended or error, or has its
\* play() rejected, the handle is cleared if it is that element and is left
\* as it is (pointing at the element of the later call) otherwise.
C3_RaceGuard ==
    (last.op \in ElementEvents /\ calls[audio[last.el].call].kind = "playUrl") =>
        currentAudio = IF last.handle = last.el THEN 0 ELSE last.handle

\* An event of the element of playUrl(urlA) came after playUrl(urlB).
C3_Witness ==
    /\ last.op \in ElementEvents
    /\ calls[audio[last.el].call].kind = "playUrl"
    /\ last.handle # 0 /\ last.handle # last.el
    /\ currentAudio = last.handle
    /\ calls[audio[last.handle].call].kind = "playUrl"

\* C4: no element created by playUrl is playing while an utterance is queued
\* or speaking.
C4_OneSource ==
    ~(synthQueue # <<>> /\ \E e \in Elements : Playing(audio[e]))

\* C5: once a later request has been issued, an earlier one starts nothing:
\* no utterance of an earlier call is in the queue, and no element of an
\* earlier call is playing.
C5_Supersedes ==
    \A c2 \in Calls : Started(c2) =>
        /\ \A i \in 1..Len(synthQueue) : synthQueue[i].call >= c2
        /\ \A e \in Elements : Playing(audio[e]) => audio[e].call >= c2

\* C6: an ended or error event or a play() rejection of the element of a
\* superseded playWordAudio / playSentenceAudio call leaves the newer session
\* alone: the handle still points at the newer element, which is not paused,
\* and nothing is queued for the superseded call.
C6_StaleDiscarded ==
    (/\ last.op \in ElementEvents
     /\ calls[audio[last.el].call].kind \in {"word", "sentence"}
     /\ last.handle # 0 /\ last.handle # last.el) =>
        /\ currentAudio = last.handle
        /\ ~audio[last.handle].paused
        /\ calls[audio[last.el].call].tts = "none"

\* C9: a playWordAudio call whose remote playback has not failed queues no
\* utterance, and has resolved only if its element has ended.
C9_WordRemoteOk ==
    \A c \in Calls :
        (calls[c].kind = "word" /\ calls[c].el # 0 /\ ~Failed(calls[c].el)) =>
            /\ calls[c].queued = 0 /\ calls[c].tts = "none"
            /\ \A i \in 1..Len(synthQueue) : synthQueue[i].call # c
            /\ calls[c].pc = "resolved" => audio[calls[c].el].ended

\* A playWordAudio call has resolved on the ended event of its element.
C9_Witness ==
    \E c \in Calls :
        /\ calls[c].kind = "word" /\ calls[c].pc = "resolved"
        /\ audio[calls[c].el].ended /\ calls[c].queued = 0

\* C8: stopAll() is idempotent.  From every reachable state a second call
\* changes nothing after a first; called when the handle is null and no
\* utterance is queued, it leaves the coordinator's state as it is and only
\* resets the subscribers, and nothing at all if no subscriber is playing.
Coordinator(w) ==
    <<w.currentAudio, w.audio, w.synthQueue, w.cachedVoices, w.isLoaded,
      w.platformVoices, w.onvoiceschanged, w.listeners, w.calls>>

NoSubscriberPlaying ==
    ~lecture.isPlaying /\ scene.playingId = 0 /\ ~music.isPlaying /\ music.paused

C8_StopAllIdempotent ==
    /\ stopAudio(stopAudio(W)) = stopAudio(W)
    /\ last.op = "stopAll" => stopAudio(W) = W
    /\ (currentAudio = 0 /\ synthQueue = <<>>) =>
          /\ Coordinator(stopAudio(W)) = Coordinator(W)
          /\ NoSubscriberPlaying => stopAudio(W) = W

\* stopAll() was called with the handle null and no utterance queued, while
\* the three sections were mounted and elements and calls existed.
C8_Witness ==
    /\ last.op = "stopAll" /\ last.handle = 0 /\ last.queued = 0
    /\ lecture.mounted /\ scene.mounted /\ music.mounted /\ music.n > 0
    /\ audio # <<>> /\ calls # <<>>

\* C7 as stated: the completion signal of every playUrl call eventually
\* settles and the session is idle again, also when it is stopped or
\* superseded.
C7_AlwaysSettles ==
    \A e \in 1..MaxAudio :
        (e \in Elements) ~>
            (e \in Elements /\ audio[e].promise # "pending" /\ currentAudio # e)

\* C7 amended: the completion signal resolves only on ended and rejects only
\* on a failure, and the session of every element eventually settles and is
\* idle again unless stopAudio paused the element.
C7_SettlesUnlessStopped ==
    /\ [](\A e \in Elements :
            /\ audio[e].promise = "resolved" => audio[e].ended
            /\ audio[e].promise = "rejected" => Failed(e)
            /\ audio[e].promise # "pending" => currentAudio # e)
    /\ \A e \in 1..MaxAudio :
        (e \in Elements) ~>
            (e \in Elements /\
                \/ audio[e].promise # "pending" /\ currentAudio # e
                \/ audio[e].paused)

\* A session has run Requested, Playing, Ended and is idle.
C7_Witness ==
    \E e \in Elements :
        audio[e].ended /\ audio[e].promise = "resolved" /\ ~audio[e].paused
            /\ currentAudio = 0

\* C10: a playWordAudio call queues at most one utterance, of its text at its
\* speed clamped, and none unless its remote playback failed; once the remote
\* playback has failed, one utterance is eventually queued.
C10_WordFallback ==
    /\ [](\A c \in Calls : calls[c].kind = "word" =>
            /\ calls[c].queued <= 1
            /\ calls[c].queued = 1 => Failed(calls[c].el)
            /\ calls[c].tts # "none" => Failed(calls[c].el)
            /\ \A i \in 1..Len(synthQueue) : synthQueue[i].call = c =>
                  /\ synthQueue[i].text = calls[c].text
                  /\ synthQueue[i].rate = clampRate(calls[c].rate)
                  /\ synthQueue[i].rate >= MinRate /\ synthQueue[i].rate <= MaxRate)
    /\ \A c \in 1..MaxCalls :
        (c \in Calls /\ calls[c].kind = "word" /\ calls[c].el # 0
            /\ Failed(calls[c].el))
          ~> (c \in Calls /\ calls[c].queued = 1)

\* The remote playback of a playWordAudio call failed and its utterance is
\* queued at the clamped speed.
C10_Witness ==
    \E c \in Calls :
        /\ calls[c].kind = "word" /\ Failed(calls[c].el) /\ calls[c].queued = 1
        /\ \E i \in 1..Len(synthQueue) :
              synthQueue[i].call = c /\ synthQueue[i].rate = MinRate
                  /\ calls[c].rate < MinRate

----------------------------------------------------------------------------
\* The strategies of a playWordAudio / playSentenceAudio call, seen in the
\* elements it created: those of the generic lookup URL and those of any
\* other (the explicit) URL.
ElementsOf(c) == {e \in Elements : audio[e].call = c}
GenericOf(c) ==
    {e \in ElementsOf(c) : audio[e].url = dictUrl(calls[c].text, calls[c].accent)}
ExplicitOf(c) == ElementsOf(c) \ GenericOf(c)

\* C11: a playSentenceAudio call given an explicit URL attempts it first; the
\* generic lookup URL of its text is attempted only after the explicit URL
\* has failed, and is attempted at once then; TTS is started only after the
\* generic URL has failed too, never on the failure of the explicit URL alone.
C11_ExplicitThenGeneric ==
    \A c \in Calls : calls[c].kind = "sentence" =>
        /\ calls[c].stage = "explicit" =>
              /\ GenericOf(c) = {} /\ Cardinality(ExplicitOf(c)) = 1
              /\ calls[c].el \in ExplicitOf(c)
        /\ \A x \in ExplicitOf(c) :
              /\ \A g \in GenericOf(c) : x < g /\ Failed(x)
              /\ audio[x].promise = "rejected" =>
                    GenericOf(c) # {} /\ calls[c].stage # "explicit"
        /\ (ExplicitOf(c) # {} /\ GenericOf(c) = {}) =>
              calls[c].tts = "none" /\ calls[c].queued = 0
        /\ (calls[c].tts # "none" \/ calls[c].queued > 0) =>
              \E g \in GenericOf(c) : Failed(g) /\ audio[g].promise = "rejected"
        /\ \A i \in 1..Len(synthQueue) : synthQueue[i].call = c =>
              \E g \in GenericOf(c) : Failed(g)

\* A sentence was spoken by TTS after its explicit URL and then the generic
\* URL had failed.
C11_Witness ==
    \E c \in Calls :
        /\ calls[c].kind = "sentence" /\ calls[c].queued = 1
        /\ \E x \in ExplicitOf(c), g \in GenericOf(c) :
              x < g /\ Failed(x) /\ Failed(g)

\* C12: within one playWordAudio or playSentenceAudio call each strategy is
\* attempted at most once (at most one element of the explicit URL, one of
\* the generic URL, one utterance), in that order, each only after the one
\* before it has failed, and none after one has succeeded.
C12_TryOnce ==
    \A c \in Calls : calls[c].kind \in {"word", "sentence"} =>
        /\ Cardinality(ExplicitOf(c)) <= (IF calls[c].kind = "word" THEN 0 ELSE 1)
        /\ Cardinality(GenericOf(c)) <= 1
        /\ calls[c].queued <= 1
        /\ Cardinality({i \in 1..Len(synthQueue) : synthQueue[i].call = c}) <= 1
        /\ \A x \in ExplicitOf(c), g \in GenericOf(c) : x < g
        /\ \A e \in ElementsOf(c) :
              /\ e # calls[c].el => audio[e].promise = "rejected"
              /\ audio[e].promise = "resolved" =>
                    /\ \A f \in ElementsOf(c) : f <= e
                    /\ calls[c].tts = "none" /\ calls[c].queued = 0
                    /\ calls[c].pc = "resolved"
        /\ calls[c].tts # "none" =>
              \A e \in ElementsOf(c) : audio[e].promise = "rejected"

\* The explicit URL of a sentence failed and the generic URL then played to
\* its end: the call is over and TTS was not started.
C12_Witness ==
    \E c \in Calls :
        /\ calls[c].kind = "sentence" /\ calls[c].pc = "resolved"
        /\ calls[c].tts = "none"
        /\ \E x \in ExplicitOf(c), g \in GenericOf(c) :
              audio[x].promise = "rejected" /\ audio[g].promise = "resolved"

\* C13: the promise returned by speak, playWordAudio or playSentenceAudio
\* never rejects, whatever fails: a remote failure leads to the next
\* strategy, and a call whose TTS is over (spoken, or thrown and logged) or
\* whose last remote attempt failed is resolved.
EntryPoints == {"speak", "word", "sentence"}

C13_NeverRejects ==
    \A c \in Calls : calls[c].kind \in EntryPoints =>
        /\ calls[c].pc \in {"start", "await", "resolved"}
        /\ calls[c].tts = "done" => calls[c].pc = "resolved"
        /\ (calls[c].kind = "word" /\ calls[c].el # 0
                /\ audio[calls[c].el].promise = "rejected") =>
              calls[c].pc = "resolved"
        /\ (calls[c].kind = "sentence" /\ GenericOf(c) # {}
                /\ \A e \in ElementsOf(c) : audio[e].promise = "rejected") =>
              calls[c].pc = "resolved"

\* The remote playback of a word failed, no voice was available and the
\* synthesizer threw: the call is resolved with nothing spoken.
C13_Witness ==
    \E c \in Calls :
        /\ calls[c].kind = "word" /\ Failed(calls[c].el)
        /\ calls[c].tts = "done" /\ calls[c].queued = 0
        /\ calls[c].pc = "resolved"
        /\ speakThrows /\ platformVoices = <<>> /\ cachedVoices = <<>>

\* C14: a speak call with an empty text or a repeat count of 0 or less
\* changes nothing: the handle, the elements, the speech queue, the voice
\* cache, the listeners and the subscribers are as they were (no Stop Signal
\* was dispatched).  Any other speak call has the effect of stopAll(): the
\* queue is empty, the handle is null, the element it tracked is paused at
\* position 0 and the subscribers are reset.
SpeakStep == Len(calls') = Len(calls) + 1 /\ calls'[Len(calls')].kind = "speak"

C14_SpeakNoOp ==
    [][SpeakStep =>
        IF calls'[Len(calls')].text = "" \/ calls'[Len(calls')].repeat <= 0
        THEN /\ currentAudio' = currentAudio /\ audio' = audio
             /\ synthQueue' = synthQueue
             /\ cachedVoices' = cachedVoices /\ isLoaded' = isLoaded
             /\ listeners' = listeners
             /\ music' = music /\ lecture' = lecture /\ scene' = scene
             /\ calls'[Len(calls')].tts = "none"
             /\ calls'[Len(calls')].pc = "resolved"
        ELSE /\ currentAudio' = 0 /\ synthQueue' = <<>>
             /\ currentAudio # 0 =>
                   audio'[currentAudio].paused /\ audio'[currentAudio].currentTime = 0
             /\ ~music'.isPlaying /\ music'.paused
             /\ calls'[Len(calls')].tts # "none"]_vars

\* speak was called with an empty text or a repeat count of 0 or less while
\* an element was playing, and the element still is.
C14_Witness ==
    /\ last.op = "speak"
    /\ calls[Len(calls)].kind = "speak"
    /\ calls[Len(calls)].text = "" \/ calls[Len(calls)].repeat <= 0
    /\ currentAudio # 0 /\ Playing(audio[currentAudio])
    /\ audio[currentAudio].play = "resolved"

\* C15: when the loop of a speak call runs, exactly repeat utterances of its
\* text are appended to the speech queue, one after the other behind what was
\* queued, each at the call's rate brought into [0.1, 10].
LoopRuns(c) == calls[c].tts # "done" /\ calls'[c].tts = "done"

Clamped(rate) ==
    IF rate < MinRate THEN MinRate ELSE IF rate > MaxRate THEN MaxRate ELSE rate

C15_RepeatClamped ==
    [][\A c \in Calls : (calls[c].kind = "speak" /\ LoopRuns(c)) =>
        /\ calls'[c].queued = calls[c].repeat
        /\ calls'[c].pc = "resolved"
        /\ Len(synthQueue') >= Len(synthQueue) + calls[c].repeat
        /\ SubSeq(synthQueue', 1, Len(synthQueue)) = synthQueue
        /\ Cardinality({i \in 1..Len(synthQueue') : synthQueue'[i].call = c})
              = calls[c].repeat
        /\ \E off \in Len(synthQueue)..(Len(synthQueue') - calls[c].repeat) :
              \A i \in 1..calls[c].repeat :
                  /\ synthQueue'[off + i].call = c
                  /\ synthQueue'[off + i].text = calls[c].text
                  /\ synthQueue'[off + i].rate = Clamped(calls[c].rate)
                  /\ synthQueue'[off + i].rate >= MinRate
                  /\ synthQueue'[off + i].rate <= MaxRate]_vars

\* speak("hello", "UK", 0.05, 2) has queued two utterances at rate 0.1.
C15_Witness ==
    \E c \in Calls :
        /\ calls[c].kind = "speak" /\ calls[c].tts = "done"
        /\ calls[c].rate = 5 /\ calls[c].repeat = 2
        /\ Len(synthQueue) = 2
        /\ \A i \in 1..2 :
              /\ synthQueue[i].call = c /\ synthQueue[i].text = "hello"
              /\ synthQueue[i].rate = MinRate

\* C16: the utterances a speak call queues carry a voice of the catalog its
\* waitForVoices resolved with: one whose locale is the accent's tag (en-GB
\* for UK, en-US for US) if the catalog has one; else one whose locale starts
\* with en if it has one; else no voice, and the accent's tag as the locale.
ResolvedWith(c) ==
    IF calls[c].tts = "ready" THEN calls[c].voices ELSE platformVoices'

C16_VoiceSelection ==
    [][\A c \in Calls : (calls[c].kind = "speak" /\ LoopRuns(c)) =>
        LET v == ResolvedWith(c)
            tag == IF calls[c].accent = "UK" THEN <<"en", "GB">> ELSE <<"en", "US">>
            exact == {j \in 1..Len(v) : v[j].lang = tag}
            en == {j \in 1..Len(v) : v[j].lang[1] = "en"}
        IN  \A i \in 1..Len(synthQueue') : synthQueue'[i].call = c =>
              /\ exact # {} =>
                    /\ synthQueue'[i].lang = tag
                    /\ \E j \in exact : v[j].name = synthQueue'[i].voice
              /\ (exact = {} /\ en # {}) =>
                    \E j \in en : /\ v[j].name = synthQueue'[i].voice
                                  /\ v[j].lang = synthQueue'[i].lang
              /\ en = {} =>
                    synthQueue'[i].voice = "" /\ synthQueue'[i].lang = tag]_vars

\* A UK utterance is queued with the en-US voice of a catalog that has no
\* en-GB voice.
C16_Witness ==
    \E i \in 1..Len(synthQueue) :
        /\ calls[synthQueue[i].call].accent = "UK"
        /\ synthQueue[i].voice = "us" /\ synthQueue[i].lang = <<"en", "US">>
        /\ \A j \in 1..Len(cachedVoices) : cachedVoices[j].lang # <<"en", "GB">>
        /\ cachedVoices # <<>>

\* C17: a waitForVoices that found no voices stays pending, its listener
\* registered, through every step that leaves the platform without voices,
\* except the firing of its timer; at that step it resolves with the empty
\* list (the utterances get no voice, the cache stays as it is) and its
\* listener is removed.  No resolved waitForVoices has a listener registered.
Listening(c) == \E i \in 1..Len(listeners) : listeners[i] = c

C17_TimeoutResolves ==
    /\ [](\A c \in Calls :
            /\ Listening(c) <=> calls[c].tts = "listening"
            /\ Cardinality({i \in 1..Len(listeners) : listeners[i] = c}) <= 1)
    /\ [][\A c \in Calls :
            (calls[c].tts = "listening" /\ platformVoices' = <<>>) =>
                IF calls'[c].tts = "listening"
                THEN \E i \in 1..Len(listeners') : listeners'[i] = c
                ELSE /\ last'.op = "timeout"
                     /\ \A i \in 1..Len(listeners') : listeners'[i] # c
                     /\ cachedVoices' = cachedVoices /\ isLoaded' = isLoaded
                     /\ calls'[c].queued = calls[c].repeat
                     /\ \A i \in 1..Len(synthQueue') : synthQueue'[i].call = c =>
                           /\ synthQueue'[i].voice = ""
                           /\ synthQueue'[i].lang = langTag(calls[c].accent)]_vars

\* The timer of a waitForVoices fired on a platform that never had a voice:
\* the call spoke with no voice and no listener is left.
C17_Witness ==
    /\ last.op = "timeout"
    /\ platformVoices = <<>> /\ cachedVoices = <<>> /\ ~isLoaded
    /\ listeners = <<>>
    /\ \E i \in 1..Len(synthQueue) :
          /\ synthQueue[i].voice = ""
          /\ calls[synthQueue[i].call].tts = "done"

\* Call c calls waitForVoices in this step, and has it resolved in this step.
Enters(c) == (c > Len(calls) \/ calls[c].tts = "none") /\ calls'[c].tts # "none"
ResolvedNow(c) == calls'[c].tts \in {"ready", "done"}

\* The voices-changed listener of c resolves only at its timer or at a step
\* after which the platform reports voices; never at a notification that
\* reports none.
LateResolution ==
    \A c \in Calls :
        (calls[c].tts = "listening" /\ calls'[c].tts # "listening") =>
            /\ ResolvedNow(c)
            /\ last'.op = "timeout" \/ platformVoices' # <<>>

\* Under the platform's guarantees every waitForVoices resolves and its
\* caller runs on.
EventuallyResolves ==
    \A c \in 1..MaxCalls :
        (c \in Calls /\ calls[c].tts \in {"ready", "listening"})
            ~> (c \in Calls /\ calls[c].tts = "done")

\* C18 as stated: waitForVoices resolves at once when the cache is populated,
\* and otherwise suspends until a notification with voices or the timeout.
C18_CachedOrSuspends ==
    /\ [][\A c \in 1..Len(calls') : Enters(c) =>
            IF isLoaded /\ cachedVoices # <<>>
            THEN /\ ResolvedNow(c)
                 /\ cachedVoices' = cachedVoices
                 /\ calls'[c].tts = "ready" => calls'[c].voices = cachedVoices
            ELSE calls'[c].tts = "listening"]_vars
    /\ [][LateResolution]_vars
    /\ EventuallyResolves

\* C18 amended: waitForVoices resolves at once with the cached catalog when
\* the cache is populated, and at once with the platform's list, which it
\* caches, when the platform reports voices at the call; otherwise it
\* suspends and resolves at the first of a notification with voices and the
\* timeout, and not at a notification without voices.  It always resolves.
C18_AlwaysResolves ==
    /\ [][\A c \in 1..Len(calls') : Enters(c) =>
            IF isLoaded /\ cachedVoices # <<>>
            THEN /\ ResolvedNow(c)
                 /\ cachedVoices' = cachedVoices
                 /\ calls'[c].tts = "ready" => calls'[c].voices = cachedVoices
            ELSE IF platformVoices # <<>>
            THEN /\ ResolvedNow(c)
                 /\ cachedVoices' = platformVoices /\ isLoaded'
                 /\ calls'[c].tts = "ready" => calls'[c].voices = platformVoices
            ELSE /\ calls'[c].tts = "listening"
                 /\ \E i \in 1..Len(listeners') : listeners'[i] = c]_vars
    /\ [][LateResolution]_vars
    /\ EventuallyResolves

\* The timer of a waitForVoices fired after the platform had got its voices
\* without a notification: it resolved with the voices reported then, which
\* the utterance uses, and cached nothing.
C18_Witness ==
    /\ last.op = "timeout"
    /\ platformVoices # <<>> /\ cachedVoices = <<>>
    /\ \E i \in 1..Len(synthQueue) :
          /\ synthQueue[i].voice = "us"
          /\ calls[synthQueue[i].call].tts = "done"

\* C19: a dispatch of the Stop Signal, in whatever state, leaves every
\* mounted section not playing: isPlaying false in VideoLectureSection,
\* playingId null in VideoSceneSection, isPlaying false and the <audio>
\* paused in MusicSection; and so is the state after every step that ends
\* with a dispatch.
DispatchSteps == {"stopAll", "playUrl", "speak", "mount", "lectureNav"}

C19_SubscribersReset ==
    /\ \A w \in {dispatchStopMedia(W)} :
          /\ w.lecture.mounted => ~w.lecture.isPlaying
          /\ w.scene.mounted => w.scene.playingId = 0
          /\ w.music.mounted => ~w.music.isPlaying /\ w.music.paused
    /\ last.op \in DispatchSteps =>
          /\ lecture.mounted => ~lecture.isPlaying
          /\ scene.mounted => scene.playingId = 0
          /\ music.mounted => ~music.isPlaying /\ music.paused

\* playUrl was called while a section was playing and the three sections
\* were mounted: none is playing now.
C19_Witness ==
    /\ last.op = "playUrl" /\ last.playing
    /\ lecture.mounted /\ lecture.n > 0
    /\ scene.mounted /\ scene.n > 0
    /\ music.mounted /\ music.n > 0
    /\ NoSubscriberPlaying

\* C20: a mounted section has exactly one Stop Signal listener on window,
\* also when its list is empty and it renders nothing, and an unmounted one
\* has none: a dispatch leaves an unmounted section as it is.
C20_OneListener ==
    /\ lecture.listening = (IF lecture.mounted THEN 1 ELSE 0)
    /\ scene.listening = (IF scene.mounted THEN 1 ELSE 0)
    /\ music.listening = (IF music.mounted THEN 1 ELSE 0)
    /\ ~lecture.mounted =>
          lecture = NoLecture /\ dispatchStopMedia(W).lecture = NoLecture
    /\ ~scene.mounted =>
          scene = NoScene /\ dispatchStopMedia(W).scene = NoScene
    /\ ~music.mounted =>
          music = NoMusic /\ dispatchStopMedia(W).music = NoMusic

\* A section was unmounted while another, with an empty list, is mounted.
C20_Witness ==
    /\ last.op = "unmount"
    /\ ~music.mounted /\ music.listening = 0
    /\ lecture.mounted /\ lecture.n = 0 /\ lecture.listening = 1
    /\ scene.mounted /\ scene.listening = 1

\* C21: at most one of the coordinator's handle, the lecture video, a scene
\* video and the music player is marked playing in any state; and a step of
\* handlePlayClick, handlePlay or togglePlay that begins playback leaves its
\* own section marked playing and everything else stopped, as stopAll() does.
Marked ==
    {x \in {"handle", "lecture", "scene", "music"} :
        \/ x = "handle" /\ currentAudio # 0
        \/ x = "lecture" /\ lecture.isPlaying
        \/ x = "scene" /\ scene.playingId # 0
        \/ x = "music" /\ music.isPlaying}

C21_StopBeforePlay ==
    /\ [](Cardinality(Marked) <= 1)
    /\ [][/\ (last'.op = "lecturePlay" /\ ~lecture.isPlaying) =>
              /\ lecture'.isPlaying
              /\ currentAudio' = 0 /\ synthQueue' = <<>>
              /\ scene'.playingId = 0 /\ ~music'.isPlaying /\ music'.paused
              /\ currentAudio # 0 => audio'[currentAudio].paused
          /\ last'.op = "scenePlay" =>
              /\ scene'.playingId # 0 /\ scene'.playingId # scene.playingId
              /\ currentAudio' = 0 /\ synthQueue' = <<>>
              /\ ~lecture'.isPlaying /\ ~music'.isPlaying /\ music'.paused
              /\ currentAudio # 0 => audio'[currentAudio].paused
          /\ (last'.op = "togglePlay" /\ ~music.isPlaying) =>
              /\ music'.isPlaying /\ ~music'.paused
              /\ currentAudio' = 0 /\ synthQueue' = <<>>
              /\ ~lecture'.isPlaying /\ scene'.playingId = 0
              /\ currentAudio # 0 => audio'[currentAudio].paused]_vars

\* The lecture video was started while an element of playUrl was playing:
\* the element is paused, the handle is null, the lecture is marked playing.
C21_Witness ==
    /\ last.op = "lecturePlay" /\ last.handle # 0
    /\ audio[last.handle].paused /\ audio[last.handle].play = "resolved"
    /\ currentAudio = 0
    /\ lecture.isPlaying
    /\ scene.mounted /\ music.mounted /\ music.n > 0

\* C22: isLoaded implies a non-empty cachedVoices in every state; no step
\* (preloadVoices, waitForVoices, a voices-changed notification, with or
\* without voices) replaces a non-empty cache by an empty one; and
\* preloadVoices called again changes nothing: the cache and the callback on
\* synth.onvoiceschanged are as after one call.
C22_CacheInvariant ==
    /\ [](isLoaded => cachedVoices # <<>>)
    /\ [](preload(preload(W)) = preload(W))
    /\ [](last.op = "preload" => onvoiceschanged /\ preload(W) = W)
    /\ [][cachedVoices # <<>> => (cachedVoices' # <<>> /\ isLoaded')]_vars

\* preloadVoices was called on a platform that reports no voices any more,
\* after the cache had been filled: the cache is kept.
C22_Witness ==
    /\ last.op = "preload"
    /\ platformVoices = <<>>
    /\ isLoaded /\ cachedVoices # <<>>
    /\ onvoiceschanged

\* C23: a non-null handle points at the element created last, and that
\* element has not ended, not failed and not had its play() rejected, and
\* its completion signal is pending; when the tracked element ends, fails or
\* is rejected, the handle has left it by the time its completion signal is
\* settled, so that what runs on from the signal finds the handle null.
C23_HandleLive ==
    /\ currentAudio # 0 =>
          /\ currentAudio = Len(audio)
          /\ ~audio[currentAudio].ended /\ ~Failed(currentAudio)
          /\ audio[currentAudio].promise = "pending"
    /\ \A e \in Elements : audio[e].promise # "pending" => currentAudio # e
    /\ (last.op \in ElementEvents /\ last.handle = last.el) =>
          /\ audio[last.el].promise # "pending"
          /\ currentAudio = 0 \/ currentAudio > last.el
          /\ ~audio[last.el].paused

\* The tracked element failed: its signal is rejected and the handle is null.
C23_Witness ==
    /\ last.op = "error" /\ last.handle = last.el
    /\ audio[last.el].promise = "rejected"
    /\ audio[last.el].play = "resolved"
    /\ currentAudio = 0

\* C24: in every state in which MusicSection is marked playing, its <audio>
\* element is playing (not paused).
C24_MusicPlaying ==
    (music.mounted /\ music.isPlaying) => ~music.paused

====
